---- MODULE Spec2Model ----
(***************************************************************************)
(* The /books gateway of Webflow-Examples/middleware-example.              *)
(*                                                                         *)
(* The repository holds two variants of the same server:                   *)
(*   src/app.js            GET /books forwards every request upstream;     *)
(*   src/unnamed/part_000  GET /books consults a NodeCache first and       *)
(*                         stores a fetched payload for 3600 seconds.      *)
(* A behaviour of this module is a run of one of the two (variant), with   *)
(* up to MaxRequests inbound requests interleaved at the awaits of the     *)
(* handler, an upstream whose data changes and whose calls succeed, fail   *)
(* or stay unanswered, and a clock.                                        *)
(*                                                                         *)
(* Time is counted in seconds.  A payload is response.data as axios hands  *)
(* it to the handler: a JSON value, written as its JSON text.  Strings     *)
(* that are assembled from parts (the Authorization header, a console      *)
(* line) are sequences of their parts.                                     *)
(***************************************************************************)
EXTENDS Integers, Sequences, FiniteSets, TLC

(***************************************************************************)
(* Bounds of the model.                                                    *)
(***************************************************************************)
MaxRequests == 3

(***************************************************************************)
(* Program constants.                                                      *)
(***************************************************************************)
\* cache.set(cacheKey, response.data, 3600), and the README's 600.
TTL == 3600
ReadmeTTL == 600

UpstreamUrl == "https://api.airtable.com/v0/appiV3xCQ0KsaZS0g/books"
AllowedOrigin == "https://yourdomain.com"

\* process.env.API_KEY: the configured secret, or undefined when .env has none.
Undefined == "<undefined>"
Secret == "keyS3CR3T"
ApiKeys == {Secret, Undefined}

\* The JSON values that are falsy in JavaScript.
FalsyJson == {"null", "false", "0", "\"\""}

\* The upstream's data over time: it holds one of these versions and only
\* moves forward through them.
Versions == <<"{\"records\":[{\"id\":\"1\"}]}", "null", "{\"records\":[{\"id\":\"2\"}]}">>

\* The instants at which the program is observed: a start, a moment more than
\* ten minutes later, and the second after an entry stored at the start expired.
Instants == {0, 601, 3601}

\* What an inbound GET /books may carry: a query string and an Origin header.
\* The handler never reads its req; the requests of a run take these shapes
\* in turn.
Inbounds ==
  << [query |-> "", origin |-> AllowedOrigin],
     [query |-> "?id=7", origin |-> "https://elsewhere.example"] >>

\* The ways axios.get rejects: no response at all, or a non-2xx status.
FailureKinds == {"network", "status503"}

Reqs == 1..MaxRequests

\* The inbound request (req) that is the r-th to arrive.
InboundOf(r) == Inbounds[((r - 1) % Len(Inbounds)) + 1]

VARIABLES
  variant,   \* "plain" (src/app.js) or "cached" (src/unnamed/part_000)
  apiKey,    \* process.env.API_KEY
  now,       \* the clock, seconds
  upstream,  \* the version of its data the upstream holds: an index of Versions
  cache,     \* NodeCache's data: key -> [v, t], t the expiry time
  reqs,      \* per inbound request: position in the handler and what it saw
  log,       \* the console: a sequence of lines
  stores     \* history: the cache.set calls so far, in order: [v, at, by]

vars == <<variant, apiKey, now, upstream, cache, reqs, log, stores>>

NoData == Undefined
NoCall == [method |-> "none", url |-> "", headers |-> <<>>]
NoAnswer == [kind |-> "none", data |-> NoData]
NoRes == [status |-> 0, body |-> [type |-> "none", value |-> NoData]]

\* A request's record.  call and answer are the handler's locals (the axios
\* call, its response or error) and last as long as the handler runs; the
\* rest is the history of the request: when it consulted the cache (at), the
\* cache key it used, how many cache.set calls preceded that (seen), how many
\* upstream calls it issued, the response it sent and whether that came from
\* the cache.
IdleReq ==
  [ pc |-> "idle", call |-> NoCall, answer |-> NoAnswer, at |-> 0, key |-> "",
    seen |-> 0, calls |-> 0, res |-> NoRes, fromCache |-> FALSE ]

(***************************************************************************)
(* JavaScript and library primitives the handler uses.                     *)
(***************************************************************************)

\* if (cachedData): undefined, null, false, 0 and "" are falsy.
Truthy(v) == v # Undefined /\ v \notin FalsyJson

\* `${apiKey}`: a template literal prints undefined as "undefined".
TemplateString(x) == IF x = Undefined THEN "undefined" ELSE x

\* { Authorization: `Bearer ${apiKey}` }
Headers(key) == <<"Bearer ", TemplateString(key)>>

\* A slip: the cache key is made from the inbound query string.
cacheKeyPerQuery(req) == IF req.query = "" THEN "books" ELSE "books?id=7"

\* const cacheKey = "books", inside the handler of request req.
cacheKey(req) == "books"

\* A slip: the inbound query string is passed on to the upstream.
AxiosGetWithQuery(req, key) ==
  [ method |-> "GET",
    url |-> IF req.query = "" THEN UpstreamUrl
            ELSE "https://api.airtable.com/v0/appiV3xCQ0KsaZS0g/books?id=7",
    headers |-> Headers(key) ]

\* axios.get(url, { headers }), inside the handler of request req.
AxiosGet(req, key) == [method |-> "GET", url |-> UpstreamUrl, headers |-> Headers(key)]

\* res.json(data): status 200 unless set, the body is the value as JSON.
ResJson(data) == [status |-> 200, body |-> [type |-> "json", value |-> data]]

\* res.status(500).json({ message: "Internal Server Error" })
ErrorData == "{\"message\":\"Internal Server Error\"}"
ResError == [status |-> 500, body |-> [type |-> "json", value |-> ErrorData]]

\* NodeCache._check: an entry is expired once its time t lies before the clock.
Expired(e, t) == e.t # 0 /\ e.t < t

\* NodeCache.get: the value of a live entry; undefined for none or an expired one.
CacheGet(c, k, t) ==
  IF k \in DOMAIN c /\ ~Expired(c[k], t) THEN c[k].v ELSE NoData

\* A slip: reading a live entry renews its time-to-live.
CacheAfterGetRenewing(c, k, t) ==
  IF k \in DOMAIN c
    THEN IF Expired(c[k], t) THEN [x \in DOMAIN c \ {k} |-> c[x]]
         ELSE [c EXCEPT ![k].t = t + TTL]
    ELSE c

\* NodeCache.get deletes the expired entry it finds (deleteOnExpire).
CacheAfterGet(c, k, t) ==
  IF k \in DOMAIN c /\ Expired(c[k], t)
    THEN [x \in DOMAIN c \ {k} |-> c[x]]
    ELSE c

\* A slip: a live entry is kept, the first store wins.
CacheSetIfAbsent(c, k, v, ttl, t) ==
  IF k \in DOMAIN c /\ ~Expired(c[k], t)
    THEN c
    ELSE [x \in DOMAIN c \cup {k} |->
            IF x = k THEN [v |-> v, t |-> t + ttl] ELSE c[x]]

\* NodeCache.set(key, value, ttl): the entry expires ttl seconds from now; a
\* ttl of 0 (the default when none is given) makes an entry that never expires.
CacheSet(c, k, v, ttl, t) ==
  [x \in DOMAIN c \cup {k} |->
     IF x = k THEN [v |-> v, t |-> IF ttl = 0 THEN 0 ELSE t + ttl] ELSE c[x]]

\* const cachedData = cache.get(cacheKey)
CachedData(c, req, t) == CacheGet(c, cacheKey(req), t)

\* A slip: the whole axios response is stored instead of response.data.
StoredWholeResponse(c, req, data, t) ==
  CacheSet(c, cacheKey(req), "{\"status\":200,\"data\":...}", TTL, t)

\* A slip: the time-to-live is left out of cache.set.
StoredWithoutTtl(c, req, data, t) == CacheSet(c, cacheKey(req), data, 0, t)

\* cache.set(cacheKey, response.data, 3600)
Stored(c, req, data, t) == CacheSet(c, cacheKey(req), data, TTL, t)

\* The rejection axios.get throws: an AxiosError that carries the request's
\* config, headers included, and for a non-2xx status the upstream's response.
AxiosError(kind, call) ==
  [ message |-> IF kind = "network" THEN "connect ECONNREFUSED"
                ELSE "Request failed with status code 503",
    config |-> call,
    response |-> IF kind = "network" THEN "none" ELSE "upstream 503 body" ]

\* console.error("Error:", error): the line is the label followed by node's
\* inspection of the error object, which prints its own properties.
ConsoleError(error) ==
  <<"Error:", error.message, "config.url", error.config.url,
    "config.headers.Authorization">> \o error.config.headers
  \o <<"response", error.response>>

\* console.log(`Server running on port ${port}`), port being PORT or 3000.
StartupLine == <<"Server running on port ", "3000">>

(***************************************************************************)
(* The initial state: the server of either variant has started.            *)
(***************************************************************************)
Init ==
  /\ variant \in {"plain", "cached"}
  /\ apiKey \in ApiKeys
  /\ now = 0
  /\ upstream = 1
  /\ cache = <<>>
  /\ reqs = [r \in Reqs |-> IdleReq]
  /\ log = <<StartupLine>>
  /\ stores = <<>>

\* Requests arrive in the order of their numbers.
NextToArrive(r) ==
  reqs[r].pc = "idle" /\ (IF r = 1 THEN TRUE ELSE reqs[r - 1].pc # "idle")

(***************************************************************************)
(* src/unnamed/part_000, lines 19-36: the handler up to its await.         *)
(***************************************************************************)
GetBooks(r) ==
  /\ variant = "cached"
  /\ NextToArrive(r)
  /\ LET req == InboundOf(r)
         cachedData == CachedData(cache, req, now)
         base == [IdleReq EXCEPT !.at = now, !.key = cacheKey(req),
                                 !.seen = Len(stores)]
     IN /\ cache' = CacheAfterGet(cache, cacheKey(req), now)
        /\ IF Truthy(cachedData)
             THEN reqs' = [reqs EXCEPT ![r] =
                    [base EXCEPT !.pc = "done", !.res = ResJson(cachedData),
                                 !.fromCache = TRUE]]
             ELSE reqs' = [reqs EXCEPT ![r] =
                    [base EXCEPT !.pc = "awaiting", !.calls = 1,
                                 !.call = AxiosGet(req, apiKey)]]
  /\ UNCHANGED <<variant, apiKey, now, upstream, log, stores>>

(***************************************************************************)
(* src/unnamed/part_000, lines 38-44: the handler after its await.         *)
(***************************************************************************)

\* The handler has sent its response: its locals are gone.
Finished(q, res) ==
  [q EXCEPT !.pc = "done", !.call = NoCall, !.answer = NoAnswer, !.res = res]

\* cache.set(cacheKey, response.data, 3600); res.json(response.data)
ResumeSuccess(r) ==
  /\ cache' = Stored(cache, InboundOf(r), reqs[r].answer.data, now)
  /\ stores' = Append(stores, [v |-> reqs[r].answer.data, at |-> now,
                               by |-> r])
  /\ reqs' = [reqs EXCEPT ![r] = Finished(reqs[r], ResJson(reqs[r].answer.data))]
  /\ UNCHANGED log

\* A slip: the failed fetch is remembered, so later requests are served it.
ResumeFailureCaching(r) ==
  /\ log' = Append(log, ConsoleError(AxiosError(reqs[r].answer.kind, reqs[r].call)))
  /\ cache' = Stored(cache, InboundOf(r), ErrorData, now)
  /\ reqs' = [reqs EXCEPT ![r] = Finished(reqs[r], ResError)]
  /\ UNCHANGED stores

\* A slip: the error's own message is sent to the client.
ResumeFailureDetailed(r) ==
  /\ log' = Append(log, ConsoleError(AxiosError(reqs[r].answer.kind, reqs[r].call)))
  /\ reqs' = [reqs EXCEPT ![r] = Finished(reqs[r],
       [ResError EXCEPT !.body.value =
          AxiosError(reqs[r].answer.kind, reqs[r].call).message])]
  /\ UNCHANGED <<cache, stores>>

\* A slip: no catch, so a rejected fetch leaves the request unanswered.
ResumeFailureUncaught(r) ==
  /\ log' = Append(log, <<"UnhandledPromiseRejection">>)
  /\ reqs' = [reqs EXCEPT ![r].pc = "rejected"]
  /\ UNCHANGED <<cache, stores>>

\* A slip: a failed fetch is tried again.
ResumeFailureRetrying(r) ==
  /\ reqs' = [reqs EXCEPT ![r].answer = NoAnswer, ![r].calls = @ + 1]
  /\ UNCHANGED <<cache, stores, log>>

\* catch (error): console.error("Error:", error); res.status(500).json(...)
ResumeFailure(r) ==
  /\ log' = Append(log, ConsoleError(AxiosError(reqs[r].answer.kind, reqs[r].call)))
  /\ reqs' = [reqs EXCEPT ![r] = Finished(reqs[r], ResError)]
  /\ UNCHANGED <<cache, stores>>

GetBooksResume(r) ==
  /\ variant = "cached"
  /\ reqs[r].pc = "awaiting"
  /\ reqs[r].answer.kind # "none"
  /\ IF reqs[r].answer.kind = "ok" THEN ResumeSuccess(r) ELSE ResumeFailure(r)
  /\ UNCHANGED <<variant, apiKey, now, upstream>>

(***************************************************************************)
(* src/app.js, lines 17-36: the handler without a cache.                   *)
(***************************************************************************)
PlainGetBooks(r) ==
  /\ variant = "plain"
  /\ NextToArrive(r)
  /\ reqs' = [reqs EXCEPT ![r] =
       [IdleReq EXCEPT !.pc = "awaiting", !.calls = 1,
                       !.call = AxiosGet(InboundOf(r), apiKey)]]
  /\ UNCHANGED <<variant, apiKey, now, upstream, cache, log, stores>>

\* res.json(response.data)
PlainSuccess(r) ==
  /\ reqs' = [reqs EXCEPT ![r] = Finished(reqs[r], ResJson(reqs[r].answer.data))]
  /\ UNCHANGED log

\* catch (error): console.error("Error:", error); res.status(500).json(...)
PlainFailure(r) ==
  /\ log' = Append(log, ConsoleError(AxiosError(reqs[r].answer.kind, reqs[r].call)))
  /\ reqs' = [reqs EXCEPT ![r] = Finished(reqs[r], ResError)]

PlainResume(r) ==
  /\ variant = "plain"
  /\ reqs[r].pc = "awaiting"
  /\ reqs[r].answer.kind # "none"
  /\ IF reqs[r].answer.kind = "ok" THEN PlainSuccess(r) ELSE PlainFailure(r)
  /\ UNCHANGED <<variant, apiKey, now, upstream, cache, stores>>

(***************************************************************************)
(* The environment: the upstream, its data, the clock, NodeCache's timer.  *)
(***************************************************************************)

\* The upstream answers a call with its current data, or the call fails.
\* Nothing obliges it to answer: axios.get is called without a timeout.
UpstreamRespond(r) ==
  /\ reqs[r].pc = "awaiting"
  /\ reqs[r].answer.kind = "none"
  /\ \/ reqs' = [reqs EXCEPT ![r].answer = [kind |-> "ok", data |-> Versions[upstream]]]
     \/ \E k \in FailureKinds :
          reqs' = [reqs EXCEPT ![r].answer = [kind |-> k, data |-> NoData]]
  /\ UNCHANGED <<variant, apiKey, now, upstream, cache, log, stores>>

\* The upstream's data changes to its next version.
UpstreamUpdate ==
  /\ \E v \in DOMAIN Versions : v > upstream /\ upstream' = v
  /\ UNCHANGED <<variant, apiKey, now, cache, reqs, log, stores>>

Tick ==
  /\ \E t \in Instants : t > now /\ now' = t
  /\ UNCHANGED <<variant, apiKey, upstream, cache, reqs, log, stores>>

\* new NodeCache() starts a timer (checkperiod) that deletes expired entries.
CheckData ==
  /\ variant = "cached"
  /\ \E k \in DOMAIN cache : Expired(cache[k], now)
  /\ cache' = [k \in {x \in DOMAIN cache : ~Expired(cache[x], now)} |-> cache[k]]
  /\ UNCHANGED <<variant, apiKey, now, upstream, reqs, log, stores>>

Next ==
  \/ \E r \in Reqs : GetBooks(r)
  \/ \E r \in Reqs : GetBooksResume(r)
  \/ \E r \in Reqs : PlainGetBooks(r)
  \/ \E r \in Reqs : PlainResume(r)
  \/ \E r \in Reqs : UpstreamRespond(r)
  \/ UpstreamUpdate
  \/ Tick
  \/ CheckData

Spec == Init /\ [][Next]_vars

\* The event loop runs a handler's continuation once its promise has settled.
\* Nothing makes requests arrive, the upstream answer or its data change.
Continuation == \E r \in Reqs : GetBooksResume(r) \/ PlainResume(r)

FairSpec == Spec /\ WF_vars(Continuation)

(***************************************************************************)
(* Vocabulary of the properties.                                           *)
(***************************************************************************)
Handled(r) == reqs[r].pc # "idle"
Done(r) == reqs[r].pc = "done"
Range(f) == {f[i] : i \in DOMAIN f}

\* The cache.set calls that preceded the handling of request r.
StoresBefore(r) == 1..reqs[r].seen

\* The cache holds an entry under "books" that has not expired.
ValidEntry == "books" \in DOMAIN cache /\ ~Expired(cache["books"], now)

(***************************************************************************)
(* C1. Cache hit: when a fetched payload was stored at time T, a request   *)
(* handled strictly between T and T + TTL issues no upstream call.         *)
(* The handler falsifies this when the stored payload is falsy.            *)
(***************************************************************************)
C1_HitIssuesNoCall ==
  \A r \in Reqs : \A i \in StoresBefore(r) :
    (variant = "cached" /\ Handled(r)
       /\ stores[i].at < reqs[r].at /\ reqs[r].at < stores[i].at + TTL)
    => reqs[r].calls = 0

(***************************************************************************)
(* C2. Cache expiry: a request handled later than T + TTL, T the time of   *)
(* the last store, issued an upstream call and was not served from the     *)
(* cache; no response served from the cache comes from an expired entry.   *)
(***************************************************************************)
C2_ExpiredIsMiss ==
  \A r \in Reqs :
    /\ (variant = "cached" /\ Handled(r) /\ reqs[r].seen > 0
          /\ stores[reqs[r].seen].at + TTL < reqs[r].at)
       => (reqs[r].calls = 1 /\ ~reqs[r].fromCache)
    /\ reqs[r].fromCache
       => (reqs[r].seen > 0 /\ reqs[r].at <= stores[reqs[r].seen].at + TTL)

C2_Witness ==
  \E r \in Reqs :
    /\ Done(r) /\ reqs[r].seen > 0 /\ reqs[r].calls = 1
    /\ Truthy(stores[reqs[r].seen].v)
    /\ stores[reqs[r].seen].at + TTL < reqs[r].at
    /\ reqs[r].res.status = 200

(***************************************************************************)
(* C3. Failure isolation: the step that handles a failed upstream call     *)
(* answers 500 with the fixed body and leaves the cache as it was; a       *)
(* request that finds no valid entry issues an upstream call; and when     *)
(* that call succeeds its payload is stored and returned with 200.         *)
(***************************************************************************)
C3_FailureIsolation ==
  [][\A r \in Reqs :
       /\ (reqs[r].pc = "awaiting" /\ reqs[r].answer.kind \in FailureKinds
             /\ reqs'[r] # reqs[r])
          => (reqs'[r].pc = "done" /\ reqs'[r].res = ResError /\ cache' = cache)
       /\ (variant = "cached" /\ reqs[r].pc = "idle" /\ reqs'[r].pc # "idle"
             /\ ~ValidEntry)
          => (reqs'[r].pc = "awaiting" /\ reqs'[r].calls = 1)
       /\ (variant = "cached" /\ reqs[r].pc = "awaiting"
             /\ reqs[r].answer.kind = "ok" /\ reqs'[r] # reqs[r])
          => /\ reqs'[r].pc = "done"
             /\ reqs'[r].res = [status |-> 200, body |->
                                  [type |-> "json", value |-> reqs[r].answer.data]]
             /\ "books" \in DOMAIN cache'
             /\ cache'["books"] = [v |-> reqs[r].answer.data, t |-> now + TTL]
    ]_vars

C3_Witness ==
  \E r1, r2 \in Reqs :
    /\ r1 < r2 /\ variant = "cached"
    /\ Done(r1) /\ reqs[r1].res = ResError /\ reqs[r1].seen = 0
    /\ Done(r2) /\ reqs[r2].res.status = 200 /\ ~reqs[r2].fromCache
    /\ reqs[r2].seen = 0 /\ Len(stores) = 1
    /\ ValidEntry /\ cache["books"].v = reqs[r2].res.body.value

(***************************************************************************)
(* C4. The credential appears in no console line and in no response body.  *)
(* The handler falsifies this: it prints the AxiosError, whose config      *)
(* holds the Authorization header.                                         *)
(***************************************************************************)
Contains(text, part) == part \in Range(text)

C4_NoCredentialLeak ==
  apiKey # Undefined =>
    /\ \A i \in DOMAIN log : ~Contains(log[i], apiKey)
    /\ \A r \in Reqs : Done(r) => ~Contains(<<reqs[r].res.body.value>>, apiKey)

(***************************************************************************)
(* C5. The step that answers a request sends 200 with the payload of its   *)
(* own successful fetch, or 200 with the payload the cache holds, or 500   *)
(* with the fixed body after a failed fetch; a response sent stays as it   *)
(* is.                                                                     *)
(***************************************************************************)
C5_TwoShapes ==
  [][\A r \in Reqs :
       /\ (~Done(r) /\ reqs'[r].pc = "done") =>
            \/ /\ reqs[r].pc = "awaiting" /\ reqs[r].answer.kind = "ok"
               /\ reqs'[r].res = [status |-> 200, body |->
                    [type |-> "json", value |-> reqs[r].answer.data]]
            \/ /\ reqs[r].pc = "awaiting" /\ reqs[r].answer.kind \in FailureKinds
               /\ reqs'[r].res = [status |-> 500, body |->
                    [type |-> "json",
                     value |-> "{\"message\":\"Internal Server Error\"}"]]
            \/ /\ reqs[r].pc = "idle" /\ ValidEntry
               /\ reqs'[r].res = [status |-> 200, body |->
                    [type |-> "json", value |-> cache["books"].v]]
       /\ Done(r) => reqs'[r].res = reqs[r].res
    ]_vars

C5_Witness ==
  \E r1, r2, r3 \in Reqs :
    /\ Done(r1) /\ reqs[r1].res.status = 200 /\ ~reqs[r1].fromCache
    /\ Done(r2) /\ reqs[r2].res.status = 200 /\ reqs[r2].fromCache
    /\ Done(r3) /\ reqs[r3].res.status = 500

(***************************************************************************)
(* C6, as claimed. Once a payload P is stored, every request answered from *)
(* the cache between that store and the expiry of that entry receives P.   *)
(* A later store within the window supersedes P.                           *)
(***************************************************************************)
C6_StableUntilExpiry ==
  \A r \in Reqs : \A i \in StoresBefore(r) :
    (reqs[r].fromCache /\ reqs[r].at <= stores[i].at + TTL)
    => reqs[r].res.body.value = stores[i].v

(***************************************************************************)
(* C6, amended. Once a payload P is stored, every request answered from    *)
(* the cache while that store is the latest one receives exactly P.        *)
(***************************************************************************)
C6_StableUntilSuperseded ==
  \A r \in Reqs : \A i \in StoresBefore(r) :
    (reqs[r].fromCache /\ i = reqs[r].seen)
    => (reqs[r].res.status = 200 /\ reqs[r].res.body.value = stores[i].v)

C6_Witness ==
  \E r \in Reqs :
    /\ reqs[r].fromCache /\ reqs[r].seen >= 2
    /\ Truthy(stores[reqs[r].seen - 1].v)
    /\ stores[reqs[r].seen].v # stores[reqs[r].seen - 1].v
    /\ reqs[r].at <= stores[reqs[r].seen - 1].at + TTL
    /\ reqs[r].res.body.value = stores[reqs[r].seen].v

(***************************************************************************)
(* C7. The README's bound: no response carries data that was fetched more  *)
(* than 600 seconds before it.  The handler stores for 3600 seconds.       *)
(***************************************************************************)
C7_ReadmeStaleness ==
  \A r \in Reqs :
    (reqs[r].fromCache /\ reqs[r].seen > 0)
    => reqs[r].at - stores[reqs[r].seen].at <= ReadmeTTL

(***************************************************************************)
(* C8, as claimed. Every request that awaits its upstream call eventually  *)
(* sends a response, whatever the upstream does.  axios.get is called      *)
(* without a timeout: a call that is never answered is awaited forever.    *)
(***************************************************************************)
C8_AllTerminate ==
  \A r \in Reqs : (reqs[r].pc = "awaiting") ~> Done(r)

(***************************************************************************)
(* C8, amended. Every request whose upstream call has been answered, with  *)
(* a payload or a failure, eventually sends a response; a request served   *)
(* from the cache has sent its response when its handler returns.          *)
(***************************************************************************)
C8_AnsweredTerminate ==
  \A r \in Reqs :
    (Handled(r) /\ (reqs[r].pc = "awaiting" => reqs[r].answer.kind # "none"))
      ~> (Done(r) /\ reqs[r].res.status \in {200, 500})

C8_Witness ==
  \E r1, r2, r3 \in Reqs :
    /\ Done(r1) /\ reqs[r1].res.status = 200 /\ ~reqs[r1].fromCache
    /\ Done(r2) /\ reqs[r2].res.status = 500
    /\ reqs[r3].pc = "awaiting" /\ reqs[r3].answer.kind = "none"

(***************************************************************************)
(* C9. No retries: a request issues at most one upstream call, none when   *)
(* it is served from the cache and one otherwise; a request answered 500   *)
(* issued exactly one.                                                     *)
(***************************************************************************)
C9_NoRetries ==
  \A r \in Reqs :
    /\ reqs[r].calls <= 1
    /\ reqs[r].fromCache => reqs[r].calls = 0
    /\ (Handled(r) /\ ~reqs[r].fromCache) => reqs[r].calls = 1
    /\ (Done(r) /\ reqs[r].res.status = 500) => reqs[r].calls = 1

C9_Witness ==
  \E r1, r2 \in Reqs :
    /\ Done(r1) /\ reqs[r1].res.status = 500 /\ reqs[r1].calls = 1
    /\ Done(r2) /\ reqs[r2].fromCache /\ reqs[r2].calls = 0

(***************************************************************************)
(* C10. Every upstream call in flight is a GET of the fixed URL with       *)
(* Authorization: Bearer <API_KEY>, whatever the inbound request of its    *)
(* handler carries, and every request handled with the cache used the key  *)
(* "books".                                                                *)
(***************************************************************************)
C10_UpstreamIndependent ==
  \A r \in Reqs :
    /\ reqs[r].pc = "awaiting" =>
         reqs[r].call =
           [ method |-> "GET",
             url |-> "https://api.airtable.com/v0/appiV3xCQ0KsaZS0g/books",
             headers |-> <<"Bearer ", IF apiKey = Undefined THEN "undefined"
                                      ELSE apiKey>> ]
    /\ (variant = "cached" /\ Handled(r)) => reqs[r].key = "books"

C10_Witness ==
  \E r1, r2 \in Reqs :
    /\ reqs[r1].pc = "awaiting" /\ reqs[r2].pc = "awaiting"
    /\ InboundOf(r1).query # InboundOf(r2).query
    /\ InboundOf(r1).origin # InboundOf(r2).origin
    /\ reqs[r1].call = reqs[r2].call
    /\ variant = "cached" /\ reqs[r1].key = reqs[r2].key

(***************************************************************************)
(* C11. Single entry: in every reachable state the cache holds at most one *)
(* entry, and the key of an entry it holds is "books".                     *)
(***************************************************************************)
C11_SingleEntry ==
  /\ Cardinality(DOMAIN cache) <= 1
  /\ \A k \in DOMAIN cache : k = "books"

C11_Witness ==
  \E r1, r2 \in Reqs :
    /\ InboundOf(r1).query # InboundOf(r2).query
    /\ Done(r1) /\ reqs[r1].res.status = 200 /\ ~reqs[r1].fromCache
    /\ Done(r2) /\ reqs[r2].res.status = 200 /\ ~reqs[r2].fromCache
    /\ Len(stores) >= 2
    /\ DOMAIN cache = {"books"}

(***************************************************************************)
(* C12. Missing credential: with API_KEY absent, no upstream call goes out *)
(* unless the console holds a line other than the startup line, printed    *)
(* before the call.  Both handlers falsify this: they send                 *)
(* "Bearer undefined" and print nothing before the call.                   *)
(***************************************************************************)
C12_MissingCredentialLogged ==
  \A r \in Reqs :
    (apiKey = Undefined /\ reqs[r].pc = "awaiting"
       /\ reqs[r].call.headers = <<"Bearer ", "undefined">>)
    => \E i \in DOMAIN log : log[i] # StartupLine

(***************************************************************************)
(* C13. A stored, unexpired entry is a hit for every payload: a request    *)
(* handled within the time-to-live of the latest store is answered 200     *)
(* with the stored payload, from the cache, and issues no upstream call,   *)
(* the falsy payloads (null, false, 0, "") included.  The handler          *)
(* falsifies this: if (cachedData) takes a stored falsy payload for a miss.*)
(***************************************************************************)
C13_FalsyPayloadIsHit ==
  \A r \in Reqs :
    (variant = "cached" /\ Done(r) /\ reqs[r].seen > 0
       /\ reqs[r].at <= stores[reqs[r].seen].at + TTL)
    => /\ reqs[r].fromCache
       /\ reqs[r].calls = 0
       /\ reqs[r].res = ResJson(stores[reqs[r].seen].v)

(***************************************************************************)
(* C14. Concurrent misses: two requests that both miss before either has   *)
(* stored both issue their own upstream call; each sends its response once *)
(* its own call is answered, whatever state the other is in; and after     *)
(* both have stored, the entry holds the payload of the one that stored    *)
(* last, with the expiry of that store.                                    *)
(***************************************************************************)

\* Requests r1 and r2 both took the miss path, and neither consulted the
\* cache after the other's cache.set.
ConcurrentMisses(r1, r2) ==
  /\ r1 # r2 /\ variant = "cached"
  /\ Handled(r1) /\ ~reqs[r1].fromCache
  /\ Handled(r2) /\ ~reqs[r2].fromCache
  /\ \A i \in StoresBefore(r1) : stores[i].by # r2
  /\ \A i \in StoresBefore(r2) : stores[i].by # r1

\* The cache.set calls made by request r.
StoresBy(r) == {i \in DOMAIN stores : stores[i].by = r}

C14_OwnCallLastStoreWins ==
  \A r1, r2 \in Reqs :
    ConcurrentMisses(r1, r2) =>
      /\ reqs[r1].calls = 1 /\ reqs[r2].calls = 1
      /\ (reqs[r1].pc = "awaiting" /\ reqs[r2].pc = "awaiting")
           => (reqs[r1].call.method = "GET" /\ reqs[r2].call.method = "GET")
      /\ \A i \in StoresBy(r1) : \A j \in StoresBy(r2) :
           (i < j /\ j = Len(stores) /\ now <= stores[j].at + TTL)
           => /\ "books" \in DOMAIN cache
              /\ cache["books"] = [v |-> reqs[r2].res.body.value,
                                   t |-> stores[j].at + TTL]
              /\ stores[j].v = reqs[r2].res.body.value

C14_ConcurrentMisses ==
  /\ []C14_OwnCallLastStoreWins
  /\ \A r \in Reqs :
       (/\ \E r2 \in Reqs : ConcurrentMisses(r, r2)
        /\ reqs[r].pc = "awaiting" /\ reqs[r].answer.kind # "none")
         ~> (Done(r) /\ reqs[r].res.status \in {200, 500})

C14_Witness ==
  \E r1, r2 \in Reqs :
    /\ ConcurrentMisses(r1, r2)
    /\ reqs[r1].seen = 0 /\ reqs[r2].seen = 0
    /\ Done(r1) /\ Done(r2)
    /\ StoresBy(r1) = {1} /\ StoresBy(r2) = {2} /\ Len(stores) = 2
    /\ stores[1].v # stores[2].v
    /\ ValidEntry /\ cache["books"].v = stores[2].v

(***************************************************************************)
(* C15. The cache is written only by the success step of a fetch: the step *)
(* that answers from the cache and the step that answers a failed fetch    *)
(* leave the cache as it was; the step that answers a successful fetch     *)
(* stores its payload under "books" to expire TTL seconds later, in the    *)
(* same step as its response; and no other step adds or alters an entry.   *)
(***************************************************************************)
C15_OnlySuccessWrites ==
  [][/\ \A r \in Reqs :
          /\ (reqs[r].pc = "idle" /\ reqs'[r].pc = "done")
               => (reqs'[r].fromCache /\ cache' = cache)
          /\ (reqs[r].pc = "awaiting" /\ reqs'[r].pc = "done"
                /\ reqs'[r].res.status = 500)
               => cache' = cache
          /\ (variant = "cached" /\ reqs[r].pc = "awaiting"
                /\ reqs'[r].pc = "done" /\ reqs'[r].res.status = 200)
               => /\ DOMAIN cache' = DOMAIN cache \cup {"books"}
                  /\ cache'["books"] =
                       [v |-> reqs'[r].res.body.value, t |-> now + 3600]
                  /\ reqs[r].answer.kind = "ok"
                  /\ reqs'[r].res.body.value = reqs[r].answer.data
     /\ \A k \in DOMAIN cache' :
          (k \notin DOMAIN cache \/ cache'[k] # cache[k])
          => \E r \in Reqs :
               /\ reqs[r].pc = "awaiting" /\ reqs[r].answer.kind = "ok"
               /\ reqs'[r].pc = "done" /\ reqs'[r].res.status = 200
    ]_vars

C15_Witness ==
  \E r1, r2, r3 \in Reqs :
    /\ variant = "cached" /\ Len(stores) = 1 /\ stores[1].by = r1
    /\ Done(r2) /\ reqs[r2].fromCache /\ reqs[r2].at > stores[1].at
    /\ Done(r3) /\ reqs[r3].res.status = 500 /\ ConcurrentMisses(r1, r3)
    /\ ValidEntry
    /\ cache["books"] = [v |-> stores[1].v, t |-> stores[1].at + TTL]

(***************************************************************************)
(* C16. Freshness never regresses: with upstream data that only moves      *)
(* forward through its versions, every cache.set stores a version at least *)
(* as new as the ones stored before it, and a request handled after        *)
(* another request was answered with a version is answered with that       *)
(* version or a newer one.  The handler falsifies this: a fetch answered   *)
(* before the data changed may be stored after a fetch answered later.     *)
(***************************************************************************)

\* The version of the upstream's data that payload p is.
VersionOf(p) == CHOOSE i \in DOMAIN Versions : Versions[i] = p

\* Request r0 had sent its 200 response when request r consulted the cache.
AnsweredBefore(r0, r) ==
  /\ Done(r0) /\ reqs[r0].res.status = 200
  /\ \/ reqs[r0].fromCache /\ r0 < r
     \/ \E i \in StoresBy(r0) : i \in StoresBefore(r)

C16_FreshnessNeverRegresses ==
  /\ \A i, j \in DOMAIN stores :
       i < j => VersionOf(stores[i].v) <= VersionOf(stores[j].v)
  /\ \A r0, r \in Reqs :
       (variant = "cached" /\ AnsweredBefore(r0, r)
          /\ Done(r) /\ reqs[r].res.status = 200)
       => VersionOf(reqs[r0].res.body.value) <= VersionOf(reqs[r].res.body.value)

====
